---- MODULE Spec2Model ----
(***************************************************************************)
(* ghjm/advent_utils: the storage backends of package board (the sparse    *)
(* Map2D, the dense FlatBoard and the CopyOnWriteStorage overlay, kept on  *)
(* a heap of objects so that aliasing between an overlay and its           *)
(* underlying backend is explicit), the Board facade over them (ingestion, *)
(* Transform, Format, bounds, Search, FindRegions, Copy; rune boards and   *)
(* the RunePlusBoard), the Point and Rectangle geometry of package utils,  *)
(* and Dijkstra over the priority queue of package graph.                  *)
(***************************************************************************)
EXTENDS Integers, Sequences, FiniteSets, TLC

\* heap:    the storage objects, a reference being an index
\* roots:   the objects the caller holds a reference to
\* last:    the latest operation and its arguments
\* copied:  <<source, copy>> once CopyToBoardStorage has been called; <<nb>>,
\*          the copy of the board, once Board.Copy has been called
\* steps:   the number of writing operations so far
\* written: the coordinates whose latest operation was a Set (dense/sparse pair)
\* board:   the Board facade (its storage is a reference into the heap)
\* search:  the local variables of a running Board.Search
\* geo:     the rectangles and the point a geometry operation is applied to
\* dijkstra: the graph, the source and the local variables of Graph.Dijkstra
VARIABLES heap, roots, last, copied, steps, written, board, search, geo, dijkstra

vars == <<heap, roots, last, copied, steps, written, board, search, geo, dijkstra>>

\* ---------------------------------------------------------------- bounds
MaxX == 1
MaxY == 1
MaxVal == 2
MaxSteps == 3
MaxStop == 2

\* the zero value of the value type (var zv VT)
ZeroVal == 0

\* the rune '.', the empty value NewRuneBoard falls back to
Dot == 1

Val == 1..MaxVal
Point == (0..MaxX) \X (0..MaxY)
Widths == 0..(MaxX + 1)
Heights == 0..(MaxY + 1)

\* ------------------------------------------------------------ sequences
RECURSIVE Perms(_)
Perms(S) ==
  IF S = {} THEN {<<>>}
  ELSE UNION {{<<x>> \o s : s \in Perms(S \ {x})} : x \in S}

\* (variant of PointLess: column first)
PointLessColumnFirst(p, q) == p[1] < q[1] \/ (p[1] = q[1] /\ p[2] < q[2])

\* the comparison handed to sort.Slice: row (Y) first, then column (X)
PointLess(p, q) == p[2] < q[2] \/ (p[2] = q[2] /\ p[1] < q[1])

\* sort.Slice(data, less) on the (key, value) tuples: insertion of each tuple
\* before the first one it is less than
RECURSIVE InsertTuple(_, _)
InsertTuple(t, L) ==
  IF L = <<>> THEN <<t>>
  ELSE IF PointLess(t[1], L[1][1]) THEN <<t>> \o L
  ELSE <<L[1]>> \o InsertTuple(t, Tail(L))

RECURSIVE SortSlice(_)
SortSlice(L) == IF L = <<>> THEN <<>> ELSE InsertTuple(L[1], SortSlice(Tail(L)))

\* ---------------------------------------------------------------- Map2D
\* the result of Get is <<value, found, faulted>>
EmptyMap == [p \in {} |-> ZeroVal]

Map2DSet(m, p, v) == [q \in DOMAIN m \cup {p} |-> IF q = p THEN v ELSE m[q]]

Map2DGet(m, p) == IF p \in DOMAIN m THEN <<m[p], TRUE, FALSE>> ELSE <<ZeroVal, FALSE, FALSE>>

Map2DDelete(m, p) == [q \in DOMAIN m \ {p} |-> m[q]]

Map2DGetOrDefault(m, p, def) == IF Map2DGet(m, p)[2] THEN <<Map2DGet(m, p)[1], FALSE>> ELSE <<def, FALSE>>

Map2DCopy(m) == [q \in DOMAIN m |-> m[q]]

\* the orders in which a range over the map may visit its keys
Map2DIterate(m) == {[i \in 1..Len(s) |-> <<s[i], m[s[i]]>>] : s \in Perms(DOMAIN m)}

\* the tuples are collected in range order, then sorted: one result per range order
Map2DIterateOrdered(m) == {SortSlice(L) : L \in Map2DIterate(m)}

\* Allocate of the sparse backend: a fresh, empty map
Map2DAllocate(m, w, ht, e) == EmptyMap

\* ------------------------------------------------------------ the objects
NewMap2D == [kind |-> "Map2D", data |-> EmptyMap, board |-> <<>>, underlying |-> 0, overlay |-> EmptyMap, emptyVal |-> ZeroVal]

NewFlatBoard == [kind |-> "FlatBoard", data |-> EmptyMap, board |-> <<>>, underlying |-> 0, overlay |-> EmptyMap, emptyVal |-> ZeroVal]

NewCopyOnWriteStorage(base, e) == [kind |-> "CopyOnWriteStorage", data |-> EmptyMap, board |-> <<>>, underlying |-> base, overlay |-> EmptyMap, emptyVal |-> e]

\* ------------------------------------------------------------- FlatBoard
FlatAllocate(fb, w, h, e) == [fb EXCEPT !.board = [y \in 1..h |-> [x \in 1..w |-> e]], !.emptyVal = e]

\* fb.board[p.Y][p.X] faults when the index is outside the allocated slices
FlatIndexOK(fb, p) == p[2] >= 0 /\ p[2] < Len(fb.board) /\ p[1] >= 0 /\ p[1] < Len(fb.board[p[2] + 1])

\* len(fb.board[0]) faults on a board without rows; && evaluates it only when p.X >= 0
FlatGetPanics(fb, p) == p[1] >= 0 /\ Len(fb.board) = 0

FlatInRange(fb, p) == p[1] >= 0 /\ p[1] < Len(fb.board[1]) /\ p[2] >= 0 /\ p[2] < Len(fb.board)

FlatGet(fb, p) ==
  IF FlatGetPanics(fb, p) THEN <<ZeroVal, FALSE, TRUE>>
  ELSE IF FlatInRange(fb, p) THEN <<fb.board[p[2] + 1][p[1] + 1], TRUE, FALSE>>
  ELSE <<ZeroVal, FALSE, FALSE>>

\* the result of GetOrDefault is <<value, faulted>>
FlatGetOrDefault(fb, p, def) ==
  IF FlatGetPanics(fb, p) THEN <<ZeroVal, TRUE>>
  ELSE IF FlatInRange(fb, p) THEN <<fb.board[p[2] + 1][p[1] + 1], FALSE>>
  ELSE <<def, FALSE>>

\* (variant of FlatSet: the indices are taken in the order [p.X][p.Y])
FlatSetTransposed(fb, p, v) == [fb EXCEPT !.board[p[1] + 1][p[2] + 1] = v]

FlatSet(fb, p, v) == [fb EXCEPT !.board[p[2] + 1][p[1] + 1] = v]

\* row-major walk: for y { for x < len(fb.board[0]) }
FlatIterate(fb) ==
  IF Len(fb.board) = 0 THEN <<>>
  ELSE [i \in 1..(Len(fb.board) * Len(fb.board[1])) |->
          <<<<(i - 1) % Len(fb.board[1]), (i - 1) \div Len(fb.board[1])>>,
            fb.board[((i - 1) \div Len(fb.board[1])) + 1][((i - 1) % Len(fb.board[1])) + 1]>>]

FlatCopy(fb) ==
  [NewFlatBoard EXCEPT !.emptyVal = fb.emptyVal,
     !.board = [y \in 1..Len(fb.board) |-> [x \in 1..Len(fb.board[1]) |-> fb.board[y][x]]]]

\* ------------------------------------------------- the visitor of Iterate
\* The visitor handed to Iterate answers true until its k-th call (k = 0:
\* always true) and false from then on; n calls were made before this walk.
\* Walk is the part of the offered list a loop "if !iterFunc(..) { return }" visits.
Min(a, b) == IF a < b THEN a ELSE b

Walk(L, n, k) ==
  IF k = 0 THEN L
  ELSE IF k - n >= 1 THEN SubSeq(L, 1, Min(Len(L), k - n))
  ELSE SubSeq(L, 1, Min(Len(L), 1))

\* --------------------------------------------------- BoardStorage dispatch
RECURSIVE StorageGet(_, _, _)
RECURSIVE StorageIterate(_, _, _, _)
RECURSIVE StorageCopyToBoardStorage(_, _)
RECURSIVE StorageIterateOrdered(_, _, _, _)

\* (variant of CowGet: the underlying is asked first)
CowGetUnderlyingFirst(h, id, p) ==
  IF StorageGet(h, h[id].underlying, p)[2] THEN StorageGet(h, h[id].underlying, p)
  ELSE Map2DGet(h[id].overlay, p)

\* CopyOnWriteStorage.Get: the overlay first, then the underlying
CowGet(h, id, p) ==
  IF Map2DGet(h[id].overlay, p)[2] THEN Map2DGet(h[id].overlay, p)
  ELSE StorageGet(h, h[id].underlying, p)

StorageGet(h, id, p) ==
  CASE h[id].kind = "Map2D" -> Map2DGet(h[id].data, p)
    [] h[id].kind = "FlatBoard" -> FlatGet(h[id], p)
    [] h[id].kind = "CopyOnWriteStorage" -> CowGet(h, id, p)

CowGetOrDefault(h, id, p, def) ==
  IF CowGet(h, id, p)[3] THEN <<ZeroVal, TRUE>>
  ELSE IF CowGet(h, id, p)[2] THEN <<CowGet(h, id, p)[1], FALSE>>
  ELSE <<def, FALSE>>

StorageGetOrDefault(h, id, p, def) ==
  CASE h[id].kind = "Map2D" -> Map2DGetOrDefault(h[id].data, p, def)
    [] h[id].kind = "FlatBoard" -> FlatGetOrDefault(h[id], p, def)
    [] h[id].kind = "CopyOnWriteStorage" -> CowGetOrDefault(h, id, p, def)

\* (variant of CowSet: the write also goes through to a sparse underlying)
CowSetWriteThrough(h, id, p, v) ==
  [heap |-> [h EXCEPT ![id].overlay = Map2DSet(h[id].overlay, p, v),
                      ![h[id].underlying].data = Map2DSet(h[h[id].underlying].data, p, v)],
   panic |-> FALSE]

\* The result of a write is [heap, panic]; a faulting write leaves the heap as it was.
CowSet(h, id, p, v) == [heap |-> [h EXCEPT ![id].overlay = Map2DSet(h[id].overlay, p, v)], panic |-> FALSE]

StorageSet(h, id, p, v) ==
  CASE h[id].kind = "Map2D" -> [heap |-> [h EXCEPT ![id].data = Map2DSet(h[id].data, p, v)], panic |-> FALSE]
    [] h[id].kind = "FlatBoard" ->
         IF FlatIndexOK(h[id], p) THEN [heap |-> [h EXCEPT ![id] = FlatSet(h[id], p, v)], panic |-> FALSE]
         ELSE [heap |-> h, panic |-> TRUE]
    [] h[id].kind = "CopyOnWriteStorage" -> CowSet(h, id, p, v)

\* (variant of CowDelete: the overlay entry is removed, no tombstone is written)
CowDeleteErase(h, id, p) == [heap |-> [h EXCEPT ![id].overlay = Map2DDelete(h[id].overlay, p)], panic |-> FALSE]

CowDelete(h, id, p) == CowSet(h, id, p, h[id].emptyVal)

StorageDelete(h, id, p) ==
  CASE h[id].kind = "Map2D" -> [heap |-> [h EXCEPT ![id].data = Map2DDelete(h[id].data, p)], panic |-> FALSE]
    [] h[id].kind = "FlatBoard" -> StorageSet(h, id, p, h[id].emptyVal)
    [] h[id].kind = "CopyOnWriteStorage" -> CowDelete(h, id, p)

\* (variant of CowAllocate: the call is accepted and does nothing)
CowAllocateAccept(h, id, w, ht, e) == [heap |-> h, panic |-> FALSE]

\* CopyOnWriteStorage.Allocate panics
CowAllocate(h, id, w, ht, e) == [heap |-> h, panic |-> TRUE]

StorageAllocate(h, id, w, ht, e) ==
  CASE h[id].kind = "Map2D" -> [heap |-> [h EXCEPT ![id].data = Map2DAllocate(h[id].data, w, ht, e)], panic |-> FALSE]
    [] h[id].kind = "FlatBoard" -> [heap |-> [h EXCEPT ![id] = FlatAllocate(h[id], w, ht, e)], panic |-> FALSE]
    [] h[id].kind = "CopyOnWriteStorage" -> CowAllocate(h, id, w, ht, e)

\* the overlay value where the overlay has one, else the underlying's
CowSubstitute(o, S) == [i \in 1..Len(S) |-> IF S[i][1] \in DOMAIN o THEN <<S[i][1], o[S[i][1]]>> ELSE S[i]]

\* (variant of CowOverCopy: visited keys are not deleted from overCopy)
CowOverCopyKeepAll(o, S) == o

\* overCopy after the walk of the underlying: every visited overlay key deleted
CowOverCopy(o, S) == [q \in DOMAIN o \ {S[i][1] : i \in 1..Len(S)} |-> o[q]]

\* CopyOnWriteStorage.Iterate: the calls of iterFunc, in order, for every
\* order the underlying and the overlay copy may be walked in
CowIterate(h, id, n, k) ==
  UNION {{CowSubstitute(h[id].overlay, S) \o Walk(T, n + Len(S), k) :
            T \in Map2DIterate(CowOverCopy(Map2DCopy(h[id].overlay), S))} :
         S \in StorageIterate(h, h[id].underlying, n, k)}

StorageIterate(h, id, n, k) ==
  CASE h[id].kind = "Map2D" -> {Walk(L, n, k) : L \in Map2DIterate(h[id].data)}
    [] h[id].kind = "FlatBoard" -> {Walk(FlatIterate(h[id]), n, k)}
    [] h[id].kind = "CopyOnWriteStorage" -> CowIterate(h, id, n, k)

\* CopyToBoardStorage allocates the copy on the heap: [heap, id]
FlatCopyToBoardStorage(h, id) == [heap |-> Append(h, FlatCopy(h[id])), id |-> Len(h) + 1]

Map2DCopyToBoardStorage(h, id) == [heap |-> Append(h, [NewMap2D EXCEPT !.data = Map2DCopy(h[id].data)]), id |-> Len(h) + 1]

\* (variant of CowCopyToBoardStorage: the copy keeps the source's underlying)
CowCopyShared(h, id) ==
  [heap |-> Append(h, [NewCopyOnWriteStorage(h[id].underlying, h[id].emptyVal) EXCEPT !.overlay = Map2DCopy(h[id].overlay)]),
   id |-> Len(h) + 1]

CowCopyToBoardStorage(h, id) ==
  LET u == StorageCopyToBoardStorage(h, h[id].underlying)
  IN [heap |-> Append(u.heap, [NewCopyOnWriteStorage(u.id, h[id].emptyVal) EXCEPT !.overlay = Map2DCopy(h[id].overlay)]),
      id |-> Len(u.heap) + 1]

StorageCopyToBoardStorage(h, id) ==
  CASE h[id].kind = "Map2D" -> Map2DCopyToBoardStorage(h, id)
    [] h[id].kind = "FlatBoard" -> FlatCopyToBoardStorage(h, id)
    [] h[id].kind = "CopyOnWriteStorage" -> CowCopyToBoardStorage(h, id)

\* underCopy.Set(p, v) for every call of a walk, in the walk's order
RECURSIVE SetAll(_, _, _)
SetAll(h, id, S) ==
  IF S = <<>> THEN [heap |-> h, panic |-> FALSE]
  ELSE IF StorageSet(h, id, S[1][1], S[1][2]).panic THEN [heap |-> h, panic |-> TRUE]
  ELSE SetAll(StorageSet(h, id, S[1][1], S[1][2]).heap, id, Tail(S))

\* CopyOnWriteStorage.IterateOrdered: copy the underlying, Set into the copy
\* every entry the underlying iterates, then IterateOrdered of the copy.
\* The result is a set of [calls, heap, panic].
CowIterateOrdered(h, id, n, k) ==
  LET c == StorageCopyToBoardStorage(h, h[id].underlying)
  IN UNION {IF SetAll(c.heap, c.id, S).panic
              THEN {[calls |-> <<>>, heap |-> SetAll(c.heap, c.id, S).heap, panic |-> TRUE]}
              ELSE StorageIterateOrdered(SetAll(c.heap, c.id, S).heap, c.id, n, k) :
            S \in StorageIterate(c.heap, h[id].underlying, 0, 0)}

StorageIterateOrdered(h, id, n, k) ==
  CASE h[id].kind = "Map2D" -> {[calls |-> Walk(L, n, k), heap |-> h, panic |-> FALSE] : L \in Map2DIterateOrdered(h[id].data)}
    [] h[id].kind = "FlatBoard" -> {[calls |-> Walk(FlatIterate(h[id]), n, k), heap |-> h, panic |-> FALSE]}
    [] h[id].kind = "CopyOnWriteStorage" -> CowIterateOrdered(h, id, n, k)

\* ------------------------------------------------------------ the program
\* The backends a caller has built: a base backend (sparse, or dense and not
\* yet allocated), an overlay over it, and possibly an overlay over that.
\* The overlays take '.' as their empty value.
Topologies ==
  {<<b, NewCopyOnWriteStorage(1, Dot)>> : b \in {NewMap2D, NewFlatBoard}}
  \cup {<<b, NewCopyOnWriteStorage(1, Dot), NewCopyOnWriteStorage(2, Dot)>> : b \in {NewMap2D, NewFlatBoard}}

NoPoint == <<0, 0>>

\* no Board facade: the backends are used directly
NoBoard == [storage |-> 0]

\* no Search is running, no geometry operation is applied
NoSearch == [pc |-> "none"]

NoGeo == [op |-> "none"]

\* no Dijkstra is running
NoDijkstra == [pc |-> "none"]

Op(op, id, p, v, k, panic) == [op |-> op, id |-> id, p |-> p, v |-> v, k |-> k, panic |-> panic]

Init ==
  /\ heap \in Topologies
  /\ roots = 1..Len(heap)
  /\ last = Op("New", 0, NoPoint, ZeroVal, 0, FALSE)
  /\ copied = <<>>
  /\ steps = 0
  /\ written = {}
  /\ board = NoBoard
  /\ search = NoSearch
  /\ geo = NoGeo
  /\ dijkstra = NoDijkstra

Allocate(id, w, ht, e) ==
  /\ steps < MaxSteps
  /\ heap' = StorageAllocate(heap, id, w, ht, e).heap
  /\ last' = Op("Allocate", id, NoPoint, e, 0, StorageAllocate(heap, id, w, ht, e).panic)
  /\ steps' = steps + 1
  /\ UNCHANGED <<roots, copied, written, board, search, geo, dijkstra>>

Set(id, p, v) ==
  /\ steps < MaxSteps
  /\ heap' = StorageSet(heap, id, p, v).heap
  /\ last' = Op("Set", id, p, v, 0, StorageSet(heap, id, p, v).panic)
  /\ steps' = steps + 1
  /\ UNCHANGED <<roots, copied, written, board, search, geo, dijkstra>>

Delete(id, p) ==
  /\ steps < MaxSteps
  /\ heap' = StorageDelete(heap, id, p).heap
  /\ last' = Op("Delete", id, p, ZeroVal, 0, StorageDelete(heap, id, p).panic)
  /\ steps' = steps + 1
  /\ UNCHANGED <<roots, copied, written, board, search, geo, dijkstra>>

\* The reads write nothing, whatever point, default or visitor they are given;
\* what they return is StorageGet, StorageGetOrDefault and StorageIterate of
\* the heap they are called on.
Get(id) ==
  /\ last' = Op("Get", 0, NoPoint, ZeroVal, 0, FALSE)
  /\ UNCHANGED <<heap, roots, copied, steps, written, board, search, geo, dijkstra>>

GetOrDefault(id) ==
  /\ last' = Op("GetOrDefault", 0, NoPoint, ZeroVal, 0, FALSE)
  /\ UNCHANGED <<heap, roots, copied, steps, written, board, search, geo, dijkstra>>

Iterate(id) ==
  /\ last' = Op("Iterate", 0, NoPoint, ZeroVal, 0, FALSE)
  /\ UNCHANGED <<heap, roots, copied, steps, written, board, search, geo, dijkstra>>

\* the scratch copy IterateOrdered builds is dropped when it returns
IterateOrdered(id, k) ==
  /\ \E r \in StorageIterateOrdered(heap, id, 0, k) :
       /\ heap' = SubSeq(r.heap, 1, Len(heap))
       /\ last' = Op("IterateOrdered", 0, NoPoint, ZeroVal, 0, r.panic)
  /\ UNCHANGED <<roots, copied, steps, written, board, search, geo, dijkstra>>

\* one copy is taken in a run
CopyToBoardStorage(id) ==
  /\ steps < MaxSteps
  /\ copied = <<>>
  /\ heap' = StorageCopyToBoardStorage(heap, id).heap
  /\ roots' = roots \cup {StorageCopyToBoardStorage(heap, id).id}
  /\ copied' = <<id, StorageCopyToBoardStorage(heap, id).id>>
  /\ last' = Op("CopyToBoardStorage", id, NoPoint, ZeroVal, 0, FALSE)
  /\ steps' = steps + 1
  /\ UNCHANGED <<written, board, search, geo, dijkstra>>

Next ==
  \/ \E id \in roots, w \in Widths, ht \in Heights, e \in Val : Allocate(id, w, ht, e)
  \/ \E id \in roots, p \in Point, v \in Val : Set(id, p, v)
  \/ \E id \in roots, p \in Point : Delete(id, p)
  \/ \E id \in roots : Get(id)
  \/ \E id \in roots : GetOrDefault(id)
  \/ \E id \in roots : Iterate(id)
  \/ \E id \in roots, k \in 0..MaxStop : IterateOrdered(id, k)
  \/ \E id \in roots : CopyToBoardStorage(id)

Spec == Init /\ [][Next]_vars

\* ------------------------------------------------- claims: the backends
IsCow(h, id) == h[id].kind = "CopyOnWriteStorage"

IsMap2D(h, id) == h[id].kind = "Map2D"

Reads == {"Get", "GetOrDefault", "Iterate", "IterateOrdered"}

\* the coordinates a Get may be asked for, one beyond the grid on every side
Probe == ((0 - 1)..(MaxX + 1)) \X ((0 - 1)..(MaxY + 1))

\* the backends below an overlay: its underlying, and what that one wraps
RECURSIVE Below(_, _)
Below(h, id) ==
  IF IsCow(h, id) THEN {h[id].underlying} \cup Below(h, h[id].underlying) ELSE {}

\* the coordinates a backend holds a value at
RECURSIVE Populated(_, _)
Populated(h, id) ==
  CASE h[id].kind = "Map2D" -> DOMAIN h[id].data
    [] h[id].kind = "FlatBoard" ->
         IF Len(h[id].board) = 0 THEN {}
         ELSE (0..(Len(h[id].board[1]) - 1)) \X (0..(Len(h[id].board) - 1))
    [] h[id].kind = "CopyOnWriteStorage" -> DOMAIN h[id].overlay \cup Populated(h, h[id].underlying)

\* the merged view of an overlay at a populated coordinate
MergedValue(h, id, p) ==
  IF p \in DOMAIN h[id].overlay THEN h[id].overlay[p] ELSE StorageGet(h, h[id].underlying, p)[1]

Visited(calls) == {calls[i][1] : i \in 1..Len(calls)}

\* C1: right after overlay.Set(p, v), overlay.Get(p) is (v, true), whatever the
\* underlying holds at p, also when the underlying is itself an overlay.
C1_OverlayPrecedence ==
  (last.op = "Set" /\ IsCow(heap, last.id)) =>
     StorageGet(heap, last.id, last.p) = <<last.v, TRUE, FALSE>>

C1_Witness ==
  /\ last.op = "Set"
  /\ IsCow(heap, last.id)
  /\ IsCow(heap, heap[last.id].underlying)
  /\ StorageGet(heap, heap[last.id].underlying, last.p)[2]
  /\ StorageGet(heap, heap[last.id].underlying, last.p)[1] # last.v

\* C2: a Set or Delete on an overlay, and every read (Get, GetOrDefault,
\* Iterate, IterateOrdered), leaves every backend below an overlay as it was.
C2_UnderlyingUntouched ==
  [][\A id \in roots :
       (IsCow(heap, id) /\ ((last'.op \in {"Set", "Delete"} /\ last'.id = id) \/ last'.op \in Reads))
         => \A j \in Below(heap, id) : heap'[j] = heap[j]]_vars

C2_Witness ==
  /\ last.op \in {"Set", "Delete"}
  /\ IsCow(heap, last.id)
  /\ Populated(heap, heap[last.id].underlying) # {}
  /\ last.p \in Populated(heap, heap[last.id].underlying)

\* C3: a complete Iterate of an overlay (visitor always true) visits exactly
\* the underlying's populated coordinates and the overlay's, each once, with
\* the overlay value where there is one and the underlying's value otherwise.
C3_IterateUnion ==
  \A id \in roots : (last.op = "Iterate" /\ IsCow(heap, id)) =>
    \A calls \in StorageIterate(heap, id, 0, 0) :
      /\ Visited(calls) = Populated(heap, heap[id].underlying) \cup DOMAIN heap[id].overlay
      /\ Cardinality(Visited(calls)) = Len(calls)
      /\ \A i \in 1..Len(calls) : calls[i][2] = MergedValue(heap, id, calls[i][1])

C3_Witness ==
  /\ last.op = "Iterate"
  /\ \E id \in roots :
       /\ IsCow(heap, id)
       /\ DOMAIN heap[id].overlay \cap Populated(heap, heap[id].underlying) # {}
       /\ DOMAIN heap[id].overlay \ Populated(heap, heap[id].underlying) # {}
       /\ Populated(heap, heap[id].underlying) \ DOMAIN heap[id].overlay # {}

\* C4: after overlay.Delete(p) a complete Iterate of the overlay visits p with
\* the empty value, populated below or not; after Delete(p) on a sparse
\* backend its Iterate does not visit p.
C4_DeleteNotErasure ==
  /\ (last.op = "Delete" /\ IsCow(heap, last.id)) =>
       \A calls \in StorageIterate(heap, last.id, 0, 0) :
         \E i \in 1..Len(calls) : calls[i] = <<last.p, heap[last.id].emptyVal>>
  /\ (last.op = "Delete" /\ IsMap2D(heap, last.id)) =>
       \A calls \in StorageIterate(heap, last.id, 0, 0) : last.p \notin Visited(calls)

C4_Witness ==
  /\ last.op = "Delete"
  /\ IsCow(heap, last.id)
  /\ last.p \in Populated(heap, heap[last.id].underlying)
  /\ StorageGet(heap, heap[last.id].underlying, last.p)[1] # heap[last.id].emptyVal

\* the populated coordinates of a backend with the value a Get finds there
Merged(h, id) == {<<p, StorageGet(h, id, p)[1]>> : p \in Populated(h, id)}

CallSet(calls) == {calls[i] : i \in 1..Len(calls)}

\* C5 (as claimed): IterateOrdered of an overlay visits the population set of
\* Iterate with the merged values: every coordinate written through the
\* overlay is visited with its overlay value.
C5_OrderedVisitsMerged ==
  \A id \in roots : (last.op = "IterateOrdered" /\ IsCow(heap, id)) =>
    \A r \in StorageIterateOrdered(heap, id, 0, 0) : CallSet(r.calls) = Merged(heap, id)

\* C6 (as claimed): once the visitor has answered false (its k-th call), no
\* further call of it is made in that Iterate, for every backend.
C6_IterateShortCircuit ==
  \A id \in roots : last.op = "Iterate" =>
    \A k \in 1..MaxStop : \A calls \in StorageIterate(heap, id, 0, k) : Len(calls) <= k

\* row-major order of two coordinates, as the claim states it
RowMajorBefore(p, q) == p[2] < q[2] \/ (p[2] = q[2] /\ p[1] < q[1])

\* C7: IterateOrdered twice in succession, nothing written in between, gives
\* the same sequence of (point, value), and the points of one call increase
\* strictly by (row Y, column X); for every backend and every visitor.
C7_OrderedDeterministic ==
  \A id \in roots : last.op = "IterateOrdered" =>
    \A k \in 0..MaxStop : \A r1 \in StorageIterateOrdered(heap, id, 0, k) :
      /\ \A i \in 1..(Len(r1.calls) - 1) : RowMajorBefore(r1.calls[i][1], r1.calls[i + 1][1])
      /\ \A r2 \in StorageIterateOrdered(SubSeq(r1.heap, 1, Len(heap)), id, 0, k) : r2.calls = r1.calls

C7_Witness ==
  /\ last.op = "IterateOrdered"
  /\ \E id \in roots :
       /\ IsCow(heap, id)
       /\ IsMap2D(heap, heap[id].underlying)
       /\ {<<1, 0>>, <<0, 1>>} \subseteq DOMAIN heap[heap[id].underlying].data

\* C9: right after c = s.CopyToBoardStorage() the two agree on Get at every
\* point; from then on a Set or Delete on c changes no Get of s or of a backend
\* below s, and a Set or Delete on s or on a backend below s changes no Get of c.
C9_CopyIndependent ==
  [][/\ (last'.op = "CopyToBoardStorage") =>
          \A p \in Probe : StorageGet(heap', copied'[2], p) = StorageGet(heap', copied'[1], p)
     /\ (copied # <<>> /\ last'.op \in {"Set", "Delete"} /\ last'.id = copied[2]) =>
          \A j \in {copied[1]} \cup Below(heap, copied[1]) : \A p \in Probe :
            StorageGet(heap', j, p) = StorageGet(heap, j, p)
     /\ (copied # <<>> /\ last'.op \in {"Set", "Delete"} /\ last'.id \in {copied[1]} \cup Below(heap, copied[1])) =>
          \A p \in Probe : StorageGet(heap', copied[2], p) = StorageGet(heap, copied[2], p)]_vars

C9_Witness ==
  /\ copied # <<>>
  /\ IsCow(heap, copied[1])
  /\ IsCow(heap, heap[copied[1]].underlying)
  /\ last.op = "Set"
  /\ last.id \in Below(heap, copied[1])
  /\ ~last.panic
  /\ StorageGet(heap, copied[1], last.p) # StorageGet(heap, copied[2], last.p)

\* ------------------------------------- a dense and a sparse backend in step
\* heap[1] is a FlatBoard and heap[2] a Map2D; both are allocated with the
\* same extent and empty value and then receive the same Set and Delete calls,
\* at coordinates inside the allocated extent.
InitPair ==
  /\ heap = <<NewFlatBoard, NewMap2D>>
  /\ roots = {1, 2}
  /\ last = Op("New", 0, NoPoint, ZeroVal, 0, FALSE)
  /\ copied = <<>>
  /\ steps = 0
  /\ written = {}
  /\ board = NoBoard
  /\ search = NoSearch
  /\ geo = NoGeo
  /\ dijkstra = NoDijkstra

PairAllocate(w, ht, e) ==
  /\ heap' = StorageAllocate(StorageAllocate(heap, 1, w, ht, e).heap, 2, w, ht, e).heap
  /\ written' = {}
  /\ last' = Op("Allocate", 0, NoPoint, e, 0, FALSE)
  /\ UNCHANGED <<roots, copied, steps, board, search, geo, dijkstra>>

PairSet(p, v) ==
  /\ FlatIndexOK(heap[1], p)
  /\ heap' = StorageSet(StorageSet(heap, 1, p, v).heap, 2, p, v).heap
  /\ written' = written \cup {p}
  /\ last' = Op("Set", 0, p, v, 0, FALSE)
  /\ UNCHANGED <<roots, copied, steps, board, search, geo, dijkstra>>

PairDelete(p) ==
  /\ FlatIndexOK(heap[1], p)
  /\ heap' = StorageDelete(StorageDelete(heap, 1, p).heap, 2, p).heap
  /\ written' = written \ {p}
  /\ last' = Op("Delete", 0, p, ZeroVal, 0, FALSE)
  /\ UNCHANGED <<roots, copied, steps, board, search, geo, dijkstra>>

NextPair ==
  \/ \E w \in Widths, ht \in Heights, e \in Val : PairAllocate(w, ht, e)
  \/ \E p \in Point, v \in Val : PairSet(p, v)
  \/ \E p \in Point : PairDelete(p)

SpecPair == InitPair /\ [][NextPair]_vars

\* the coordinates inside the extent the dense backend was allocated with
InExtent == {p \in Probe : FlatIndexOK(heap[1], p)}

Defaults == Val \cup {ZeroVal}

\* C8 (as claimed): after the same Sets and Deletes the dense and the sparse
\* backend agree on Get (value and found flag) and on GetOrDefault, at every
\* coordinate of the extent and for every default.
C8_BackendsAgree ==
  last.op # "New" =>
    \A p \in InExtent :
      /\ StorageGet(heap, 1, p) = StorageGet(heap, 2, p)
      /\ \A d \in Defaults : StorageGetOrDefault(heap, 1, p, d) = StorageGetOrDefault(heap, 2, p, d)

\* C8 (amended): the two agree on Get and on GetOrDefault for every default
\* at every coordinate of the extent whose latest operation was a Set, and on
\* GetOrDefault(p, emptyVal) at every coordinate of the extent; at a coordinate
\* never set, or deleted since, the dense backend reports (emptyVal, true) and
\* returns emptyVal for every default, the sparse one reports not found and
\* returns the default.
C8_AgreeWhereSet ==
  last.op # "New" =>
    \A p \in InExtent :
      /\ StorageGetOrDefault(heap, 1, p, heap[1].emptyVal) = StorageGetOrDefault(heap, 2, p, heap[1].emptyVal)
      /\ p \in written =>
           /\ StorageGet(heap, 1, p) = StorageGet(heap, 2, p)
           /\ StorageGet(heap, 1, p)[2]
           /\ \A d \in Defaults : StorageGetOrDefault(heap, 1, p, d) = StorageGetOrDefault(heap, 2, p, d)
      /\ p \notin written =>
           /\ StorageGet(heap, 1, p) = <<heap[1].emptyVal, TRUE, FALSE>>
           /\ StorageGet(heap, 2, p) = <<ZeroVal, FALSE, FALSE>>
           /\ \A d \in Defaults :
                /\ StorageGetOrDefault(heap, 1, p, d) = <<heap[1].emptyVal, FALSE>>
                /\ StorageGetOrDefault(heap, 2, p, d) = <<d, FALSE>>

C8_Witness ==
  /\ last.op = "Delete"
  /\ written # {}
  /\ InExtent \ written # {}
  /\ \E p \in written : StorageGet(heap, 1, p)[1] # heap[1].emptyVal

\* ------------------------------------------------------------- the Board
\* A Board is [storage, bounds, emptyVal, convFunc, compFunc]: storage is the
\* heap index of its backend, bounds is <<>> for a nil pointer and <<r>> for a
\* pointer to the rectangle r, convFunc and compFunc are "nil" or the function
\* NewRuneBoard installs.
Rect(p1, p2) == [P1 |-> p1, P2 |-> p2]

ZeroRect == Rect(<<0, 0>>, <<0, 0>>)

\* rune(v): the byte widened to a rune, its value kept; the convFunc of a
\* RunePlusBoard ("plus") pairs it with the zero Extra
ConvFunc(f, c) == IF f = "plus" THEN <<c, 0>> ELSE c

\* (variant of CompFunc: RunePlusData is compared whole)
CompFuncWhole(f, v1, v2) == v1 = v2

\* the compFunc of a RunePlusBoard ("value") compares the Value fields only
CompFunc(f, v1, v2) == IF f = "value" THEN v1[1] = v2[1] ELSE v1 = v2

\* the strings FromStrings is handed: bytes are drawn from Val
Strings == UNION {[1..n -> Val] : n \in Widths}

RowLists == UNION {[1..n -> Strings] : n \in Heights}

NewBoard(storage, e, conv, comp) ==
  [storage |-> storage, bounds |-> <<>>, emptyVal |-> e, convFunc |-> conv, compFunc |-> comp]

\* the cells of row y (1-based) that FromStrings writes, in the order it does
RowWrites(b, s, y) ==
  SelectSeq([x \in 1..Len(s[y]) |-> <<<<x - 1, y - 1>>, ConvFunc(b.convFunc, s[y][x])>>],
            LAMBDA c : ~CompFunc(b.compFunc, c[2], b.emptyVal))

\* the loop of FromStrings from row y on
RECURSIVE FromStringsRows(_, _, _, _)
FromStringsRows(b, h, s, y) ==
  IF y > Len(s) THEN [heap |-> h, err |-> FALSE, panic |-> FALSE]
  ELSE IF Len(s[y]) # Len(s[1]) THEN [heap |-> h, err |-> TRUE, panic |-> FALSE]
  ELSE IF Len(s[y]) > 0 /\ b.compFunc = "nil" THEN [heap |-> h, err |-> FALSE, panic |-> TRUE]
  ELSE LET w == SetAll(h, b.storage, RowWrites(b, s, y))
       IN IF w.panic THEN [heap |-> w.heap, err |-> FALSE, panic |-> TRUE]
          ELSE FromStringsRows(b, w.heap, s, y + 1)

\* Board.FromStrings: the board, the heap, the error and whether it faulted
BoardFromStrings(b, h, s) ==
  IF b.convFunc = "nil" THEN [board |-> b, heap |-> h, err |-> TRUE, panic |-> FALSE]
  ELSE IF Len(s) = 0 THEN [board |-> b, heap |-> h, err |-> FALSE, panic |-> TRUE]
  ELSE IF StorageAllocate(h, b.storage, Len(s[1]), Len(s), b.emptyVal).panic
         THEN [board |-> b, heap |-> h, err |-> FALSE, panic |-> TRUE]
  ELSE LET r == FromStringsRows(b, StorageAllocate(h, b.storage, Len(s[1]), Len(s), b.emptyVal).heap, s, 1)
       IN IF r.err \/ r.panic THEN [board |-> b, heap |-> r.heap, err |-> r.err, panic |-> r.panic]
          ELSE [board |-> [b EXCEPT !.bounds = <<Rect(<<0, 0>>, <<Len(s[1]) - 1, Len(s) - 1>>)>>],
                heap |-> r.heap, err |-> FALSE, panic |-> FALSE]

\* (variant of OrderRect: the corners are left as they are)
OrderRectKeep(r) == r

OrderRect(r) ==
  Rect(<<IF r.P1[1] > r.P2[1] THEN r.P2[1] ELSE r.P1[1], IF r.P1[2] > r.P2[2] THEN r.P2[2] ELSE r.P1[2]>>,
       <<IF r.P1[1] > r.P2[1] THEN r.P1[1] ELSE r.P2[1], IF r.P1[2] > r.P2[2] THEN r.P1[2] ELSE r.P2[2]>>)

orderBounds(b) ==
  IF b.bounds = <<>> THEN b ELSE [b EXCEPT !.bounds = <<OrderRect(b.bounds[1])>>]

\* the rectangle Bounds returns
BoardBounds(b) == IF orderBounds(b).bounds = <<>> THEN ZeroRect ELSE orderBounds(b).bounds[1]

Storages == {<<NewMap2D>>, <<NewFlatBoard>>, <<NewMap2D, NewCopyOnWriteStorage(1, Dot)>>}

Load(op, s, err, panic, fresh, result) ==
  [op |-> op, rows |-> s, err |-> err, panic |-> panic, fresh |-> fresh, result |-> result]

InitBoard ==
  /\ heap \in Storages
  /\ roots = {Len(heap)}
  /\ \E e \in Val \cup {ZeroVal}, conv \in {"nil", "rune"}, comp \in {"nil", "eq"} :
       board = NewBoard(Len(heap), e, conv, comp)
  /\ last = Load("New", <<>>, FALSE, FALSE, FALSE, <<>>)
  /\ copied = <<>>
  /\ steps = 0
  /\ written = {}
  /\ search = NoSearch
  /\ geo = NoGeo
  /\ dijkstra = NoDijkstra

FromStrings(s) ==
  /\ steps < MaxSteps
  /\ \E r \in {BoardFromStrings(board, heap, s)} :
       /\ heap' = r.heap
       /\ board' = r.board
       /\ last' = Load("FromStrings", s, r.err, r.panic, steps = 0, <<>>)
  /\ steps' = steps + 1
  /\ UNCHANGED <<roots, copied, written, search, geo, dijkstra>>

Bounds ==
  /\ board' = orderBounds(board)
  /\ last' = [last EXCEPT !.op = "Bounds", !.result = <<BoardBounds(board)>>]
  /\ UNCHANGED <<heap, roots, copied, steps, written, search, geo, dijkstra>>

NextBoard ==
  \/ \E s \in RowLists : FromStrings(s)
  \/ Bounds

SpecBoard == InitBoard /\ [][NextBoard]_vars

\* the first load of the board succeeded, and nothing was loaded since
FreshLoad == last.fresh /\ ~last.err /\ ~last.panic

\* C10 (as claimed): after a successful FromStrings(rows) on a fresh Board
\* over a sparse backend, the backend holds an entry at (x, y) exactly when
\* convFunc(rows[y][x]) differs from emptyVal, the entry is that decoded value,
\* and Bounds() is the rectangle (0,0)-(width-1, height-1) of the input.
C10_FromStringsSparse ==
  (FreshLoad /\ IsMap2D(heap, board.storage)) =>
    /\ DOMAIN heap[board.storage].data \subseteq (0..(Len(last.rows[1]) - 1)) \X (0..(Len(last.rows) - 1))
    /\ \A y \in 1..Len(last.rows) : \A x \in 1..Len(last.rows[y]) :
         /\ <<x - 1, y - 1>> \in DOMAIN heap[board.storage].data
              <=> ConvFunc(board.convFunc, last.rows[y][x]) # board.emptyVal
         /\ <<x - 1, y - 1>> \in DOMAIN heap[board.storage].data
              => heap[board.storage].data[<<x - 1, y - 1>>] = ConvFunc(board.convFunc, last.rows[y][x])
    /\ BoardBounds(board) = Rect(<<0, 0>>, <<Len(last.rows[1]) - 1, Len(last.rows) - 1>>)
    /\ last.op = "Bounds" => last.result = <<Rect(<<0, 0>>, <<Len(last.rows[1]) - 1, Len(last.rows) - 1>>)>>

\* some row differs in length from the first
NonUniform(s) == \E y \in 1..Len(s) : Len(s[y]) # Len(s[1])

\* the board has both functions and a backend that can be allocated
Functional(b, h) == b.convFunc # "nil" /\ b.compFunc # "nil" /\ ~IsCow(h, b.storage)

\* C11 (as claimed): FromStrings of rows of which one differs in length from
\* the first fails with the non-uniform-row-length error, and the backend's
\* contents and the bounds are what they were before the call.
C11_NoPartialIngestion ==
  [][(last'.op = "FromStrings" /\ last' # last /\ NonUniform(last'.rows) /\ Functional(board, heap))
       => (last'.err /\ ~last'.panic /\ heap' = heap /\ board'.bounds = board.bounds)]_vars

\* ------------------------------------------- Board: Get, Set, Transform, Format
\* Board.Get: <<value, faulted>>
BoardGet(b, h, p) == StorageGetOrDefault(h, b.storage, p, b.emptyVal)

\* the cell a "mirror" transform reads: the one opposite in its row
Mirror(p) == <<MaxX - p[1], p[2]>>

\* the transform functions handed to Transform: "mirror" answers the value
\* Board.Get reports for the opposite cell, "next" the follower of v
TFuncs == {"mirror", "next"}

\* the transform functions handed to Transform of a RunePlusBoard, v being
\* <<Value, Extra>>: "extra" changes the Extra only, "value" the Value only,
\* "split" the Value in column 0 and the Extra elsewhere, "same" nothing
PlusTFuncs == {"extra", "value", "split", "same"}

TFunc(t, b, h, p, v) ==
  CASE t = "mirror" -> BoardGet(b, h, Mirror(p))[1]
    [] t = "next" -> (v % MaxVal) + 1
    [] t = "extra" -> <<v[1], 1 - v[2]>>
    [] t = "value" -> <<(v[1] % MaxVal) + 1, v[2]>>
    [] t = "split" -> IF p[1] = 0 THEN <<(v[1] % MaxVal) + 1, v[2]>> ELSE <<v[1], 1 - v[2]>>
    [] t = "same" -> v

\* (variant of TransformDefer: the change is written at once)
TransformEager(h, id, p, v) == StorageSet(h, id, p, v).heap

\* a change found during the pass is appended to changes; the storage is left alone
TransformDefer(h, id, p, v) == h

\* the visitor of Transform over the calls the storage's Iterate makes
RECURSIVE TransformVisit(_, _, _, _, _)
TransformVisit(b, h, t, calls, changes) ==
  IF calls = <<>> THEN [changes |-> changes, heap |-> h, panic |-> FALSE]
  ELSE IF b.compFunc = "nil" THEN [changes |-> changes, heap |-> h, panic |-> TRUE]
  ELSE LET ch == TFunc(t, b, h, calls[1][1], calls[1][2])
       IN IF CompFunc(b.compFunc, ch, calls[1][2]) THEN TransformVisit(b, h, t, Tail(calls), changes)
          ELSE TransformVisit(b, TransformDefer(h, b.storage, calls[1][1], ch), t, Tail(calls),
                              Append(changes, <<calls[1][1], ch>>))

\* Board.Transform: the heaps it can end with, one for each order of iteration
BoardTransform(b, h, t) ==
  {LET r == TransformVisit(b, h, t, calls, <<>>)
   IN IF r.panic THEN [heap |-> r.heap, panic |-> TRUE] ELSE SetAll(r.heap, b.storage, r.changes) :
   calls \in StorageIterate(h, b.storage, 0, 0)}

\* func(r rune) rune { return r }
FFunc(v) == v

\* Board.Format: the strings and whether a Get faulted
BoardFormat(b, h) ==
  IF b.bounds = <<>> THEN [rows |-> <<>>, panic |-> FALSE]
  ELSE LET r == orderBounds(b).bounds[1]
       IN [rows |-> [y \in 1..(r.P2[2] - r.P1[2] + 1) |->
                      [x \in 1..(r.P2[1] - r.P1[1] + 1) |->
                        FFunc(BoardGet(b, h, <<r.P1[1] + x - 1, r.P1[2] + y - 1>>)[1])]],
           panic |-> \E y \in r.P1[2]..r.P2[2], x \in r.P1[1]..r.P2[1] : BoardGet(b, h, <<x, y>>)[2]]

BoardSet(p, v) ==
  /\ steps < MaxSteps
  /\ heap' = StorageSet(heap, board.storage, p, v).heap
  /\ last' = [last EXCEPT !.op = "Set", !.err = FALSE, !.fresh = FALSE, !.result = <<>>,
                          !.panic = StorageSet(heap, board.storage, p, v).panic]
  /\ steps' = steps + 1
  /\ UNCHANGED <<roots, copied, written, board, search, geo, dijkstra>>

Transform(t) ==
  /\ steps < MaxSteps
  /\ \E r \in BoardTransform(board, heap, t) :
       /\ heap' = r.heap
       /\ last' = [last EXCEPT !.op = "Transform", !.err = FALSE, !.fresh = FALSE, !.result = <<t>>,
                               !.panic = r.panic]
  /\ steps' = steps + 1
  /\ UNCHANGED <<roots, copied, written, board, search, geo, dijkstra>>

Format ==
  /\ board' = orderBounds(board)
  /\ last' = [last EXCEPT !.op = "Format", !.result = <<BoardFormat(board, heap)>>]
  /\ UNCHANGED <<heap, roots, copied, steps, written, search, geo, dijkstra>>

NextTransform ==
  \/ \E s \in RowLists : FromStrings(s)
  \/ \E p \in Point, v \in Val : BoardSet(p, v)
  \/ \E t \in TFuncs : Transform(t)
  \/ Format

SpecTransform == InitBoard /\ [][NextTransform]_vars

\* C12 (as claimed): FromStrings or Transform on a Board whose convFunc or
\* compFunc is not set fails (here: by an error or by a fault) and leaves the
\* backend's contents and the bounds unchanged.
C12_UnsetFunctionsFail ==
  [][(last' # last /\ last'.op \in {"FromStrings", "Transform"}
        /\ (board.convFunc = "nil" \/ board.compFunc = "nil"))
       => ((last'.err \/ last'.panic) /\ heap' = heap /\ board'.bounds = board.bounds)]_vars

IsFlat(h, id) == h[id].kind = "FlatBoard"

\* C13 (as claimed): Format with the identity mapping, applied to a fresh
\* board right after a successful FromStrings(rows), gives rows again, over
\* the sparse and over the dense backend.
C13_RoundTrip ==
  (FreshLoad /\ last.op = "Format" /\ (IsMap2D(heap, board.storage) \/ IsFlat(heap, board.storage)))
    => last.result = <<[rows |-> last.rows, panic |-> FALSE]>>

\* C14: a Transform pass that ends without fault leaves at every cell that was
\* populated before the pass the value the transform function gives when all
\* its reads of the board see the state before the pass, and leaves every
\* other coordinate as it was, for every order the backend iterates in; so a
\* transform that answers the opposite cell's value exchanges the two cells.
C14_TransformAtomic ==
  [][(steps' # steps /\ last'.op = "Transform" /\ ~last'.panic) =>
       \A p \in Probe :
         IF p \in Populated(heap, board.storage)
           THEN StorageGet(heap', board.storage, p)[1]
                  = TFunc(last'.result[1], board, heap, p, StorageGet(heap, board.storage, p)[1])
           ELSE StorageGet(heap', board.storage, p) = StorageGet(heap, board.storage, p)]_vars

\* a mirror transform has run over two populated cells of one row that differ
C14_Witness ==
  /\ last.op = "Transform" /\ last.result = <<"mirror">> /\ ~last.panic
  /\ {<<0, 0>>, Mirror(<<0, 0>>)} \subseteq Populated(heap, board.storage)
  /\ StorageGet(heap, board.storage, <<0, 0>>)[1] # StorageGet(heap, board.storage, Mirror(<<0, 0>>))[1]

\* ----------------------------------------------------------- Board.Search
\* The neighbors function is a function from points to the list it returns.
\* A running Search is [pc, nbr, start, open, visited, called]: called lists
\* the points the neighbors function has been invoked for, in order.
Range(L) == {L[i] : i \in 1..Len(L)}

\* (variant of SearchStep: a point taken from open is expanded even if visited)
SearchStepNoSkip(st) ==
  [st EXCEPT !.open = Tail(st.open) \o SelectSeq(st.nbr[Head(st.open)],
                                                 LAMBDA q : q \notin st.visited \cup {Head(st.open)}),
             !.visited = st.visited \cup {Head(st.open)},
             !.called = Append(st.called, Head(st.open))]

\* one turn of the loop: take cur from open; skip it if visited, else mark it
\* and append its neighbors that are not visited
SearchStep(st) ==
  IF Head(st.open) \in st.visited THEN [st EXCEPT !.open = Tail(st.open)]
  ELSE [st EXCEPT !.open = Tail(st.open) \o SelectSeq(st.nbr[Head(st.open)],
                                                      LAMBDA q : q \notin st.visited \cup {Head(st.open)}),
                  !.visited = st.visited \cup {Head(st.open)},
                  !.called = Append(st.called, Head(st.open))]

StartSearch(start, nbr) ==
  [pc |-> "loop", nbr |-> nbr, start |-> start, open |-> <<start>>, visited |-> {}, called |-> <<>>]

RECURSIVE RunSearch(_)
RunSearch(st) == IF st.open = <<>> THEN st ELSE RunSearch(SearchStep(st))

\* Board.Search: the visited set it returns
BoardSearch(start, nbr) == RunSearch(StartSearch(start, nbr)).visited

\* the points Search is run over, and the lists a neighbors function returns
SearchNodes == {p \in Point : p[1] + p[2] <= 1}

NbrLists == UNION {Perms(S) : S \in SUBSET SearchNodes}

InitSearch ==
  /\ heap = <<NewMap2D>>
  /\ roots = {1}
  /\ board = NewBoard(1, Dot, "rune", "eq")
  /\ last = Load("New", <<>>, FALSE, FALSE, FALSE, <<>>)
  /\ copied = <<>>
  /\ steps = 0
  /\ written = {}
  /\ geo = NoGeo
  /\ dijkstra = NoDijkstra
  /\ \E start \in SearchNodes, nbr \in [SearchNodes -> NbrLists] : search = StartSearch(start, nbr)

SearchLoop ==
  /\ search.pc = "loop"
  /\ search.open # <<>>
  /\ search' = SearchStep(search)
  /\ UNCHANGED <<heap, roots, last, copied, steps, written, board, geo, dijkstra>>

SearchReturn ==
  /\ search.pc = "loop"
  /\ search.open = <<>>
  /\ search' = [search EXCEPT !.pc = "done"]
  /\ UNCHANGED <<heap, roots, last, copied, steps, written, board, geo, dijkstra>>

NextSearch == SearchLoop \/ SearchReturn

SpecSearch == InitSearch /\ [][NextSearch]_vars

\* the loop is not suspended for ever: Search is one sequential function
SpecSearchFair == SpecSearch /\ WF_vars(NextSearch)

\* the points reachable from S by repeated application of nbr
RECURSIVE Reach(_, _)
Reach(S, nbr) ==
  IF UNION {Range(nbr[p]) : p \in S} \subseteq S THEN S
  ELSE Reach(S \cup UNION {Range(nbr[p]) : p \in S}, nbr)

\* C17: Search terminates, and it ends with exactly the points reachable from
\* start (start included) as its result, the neighbors function having been
\* invoked at most once for each point.
C17_SearchReachable ==
  <>[](/\ search.pc = "done"
       /\ search.visited = Reach({search.start}, search.nbr)
       /\ \A i, j \in 1..Len(search.called) : search.called[i] = search.called[j] => i = j)

\* Search has returned all three points, <<0, 1>> having been put on open
\* twice: by the start and, before it was taken from open, by <<1, 0>>
C17_Witness ==
  /\ search.pc = "done"
  /\ search.start = <<0, 0>>
  /\ search.nbr[<<0, 0>>] = <<<<1, 0>>, <<0, 1>>>>
  /\ <<0, 1>> \in Range(search.nbr[<<1, 0>>])
  /\ search.visited = SearchNodes

\* ------------------------------------------- Board: Contains, FindRegions
\* Point.Within: each axis of the rectangle is put in order, then compared
Within(p, r) ==
  /\ p[1] >= (IF r.P1[1] > r.P2[1] THEN r.P2[1] ELSE r.P1[1])
  /\ p[1] <= (IF r.P1[1] > r.P2[1] THEN r.P1[1] ELSE r.P2[1])
  /\ p[2] >= (IF r.P1[2] > r.P2[2] THEN r.P2[2] ELSE r.P1[2])
  /\ p[2] <= (IF r.P1[2] > r.P2[2] THEN r.P1[2] ELSE r.P2[2])

BoardContains(b, p) == IF b.bounds = <<>> THEN TRUE ELSE Within(p, b.bounds[1])

CardinalDeltas == <<<<0 - 1, 0>>, <<1, 0>>, <<0, 0 - 1>>, <<0, 1>>>>

\* (variant of Cardinals: the neighbor below is left out)
CardinalsThree(b, p, includeOffBoard) ==
  SelectSeq([i \in 1..3 |-> <<p[1] + CardinalDeltas[i][1], p[2] + CardinalDeltas[i][2]>>],
            LAMBDA np : includeOffBoard \/ BoardContains(b, np))

Cardinals(b, p, includeOffBoard) ==
  SelectSeq([i \in 1..4 |-> <<p[1] + CardinalDeltas[i][1], p[2] + CardinalDeltas[i][2]>>],
            LAMBDA np : includeOffBoard \/ BoardContains(b, np))

\* the points IterateBounds hands to its visitor, in its order (row by row)
IterateBoundsPoints(b) ==
  IF b.bounds = <<>> THEN <<>>
  ELSE LET r == orderBounds(b).bounds[1]
           w == r.P2[1] - r.P1[1] + 1
       IN [i \in 1..(w * (r.P2[2] - r.P1[2] + 1)) |-> <<r.P1[1] + ((i - 1) % w), r.P1[2] + ((i - 1) \div w)>>]

\* the neighbors function FindRegions hands to Search
RegionNeighbors(b, h) ==
  [pn \in Range(IterateBoundsPoints(b)) |->
     SelectSeq(Cardinals(b, pn, FALSE),
               LAMBDA cpn : CompFunc(b.compFunc, BoardGet(b, h, pn)[1], BoardGet(b, h, cpn)[1]))]

\* (variant of FindRegionsSkip: a point already in a region is not skipped)
FindRegionsSkipNever(b, h, includeEmptyVal, p, visited) ==
  (~includeEmptyVal) /\ CompFunc(b.compFunc, BoardGet(b, h, p)[1], b.emptyVal)

\* the visitor of FindRegions passes over p without starting a region
FindRegionsSkip(b, h, includeEmptyVal, p, visited) ==
  \/ p \in visited
  \/ (~includeEmptyVal) /\ CompFunc(b.compFunc, BoardGet(b, h, p)[1], b.emptyVal)

RECURSIVE FindRegionsVisit(_, _, _, _, _, _)
FindRegionsVisit(b, h, includeEmptyVal, pts, visited, regions) ==
  IF pts = <<>> THEN regions
  ELSE IF FindRegionsSkip(b, h, includeEmptyVal, Head(pts), visited)
         THEN FindRegionsVisit(b, h, includeEmptyVal, Tail(pts), visited, regions)
  ELSE LET reg == BoardSearch(Head(pts), RegionNeighbors(b, h))
       IN FindRegionsVisit(b, h, includeEmptyVal, Tail(pts), visited \cup reg, Append(regions, reg))

\* Board.FindRegions: the regions in the order found, and whether it faulted
BoardFindRegions(b, h, includeEmptyVal) ==
  IF b.compFunc = "nil" THEN [regions |-> <<>>, panic |-> TRUE]
  ELSE IF \E p \in Range(IterateBoundsPoints(b)) : BoardGet(b, h, p)[2] THEN [regions |-> <<>>, panic |-> TRUE]
  ELSE [regions |-> FindRegionsVisit(b, h, includeEmptyVal, IterateBoundsPoints(b), {}, <<>>), panic |-> FALSE]

InitRegions ==
  /\ heap \in Storages
  /\ roots = {Len(heap)}
  /\ \E e \in Val, comp \in {"nil", "eq"} : board = NewBoard(Len(heap), e, "rune", comp)
  /\ last = Load("New", <<>>, FALSE, FALSE, FALSE, <<>>)
  /\ copied = <<>>
  /\ steps = 0
  /\ written = {}
  /\ search = NoSearch
  /\ geo = NoGeo
  /\ dijkstra = NoDijkstra

FindRegions(includeEmptyVal) ==
  /\ board' = orderBounds(board)
  /\ last' = [last EXCEPT !.op = "FindRegions",
                          !.result = <<includeEmptyVal, BoardFindRegions(board, heap, includeEmptyVal).regions>>,
                          !.panic = BoardFindRegions(board, heap, includeEmptyVal).panic]
  /\ UNCHANGED <<heap, roots, copied, steps, written, search, geo, dijkstra>>

NextRegions ==
  \/ \E s \in RowLists : FromStrings(s)
  \/ \E p \in Point, v \in Val : BoardSet(p, v)
  \/ \E inc \in BOOLEAN : FindRegions(inc)

SpecRegions == InitRegions /\ [][NextRegions]_vars

\* FindRegions has returned: its argument and its regions
RegionsRan == last.op = "FindRegions" /\ ~last.panic

IncludeEmpty == last.result[1]

Regions == last.result[2]

RegionUnion == UNION {Regions[i] : i \in 1..Len(Regions)}

InBounds == Range(IterateBoundsPoints(board))

ValueAt(p) == BoardGet(board, heap, p)[1]

\* C15 (as claimed): every populated point is in exactly one region, and the
\* regions together are the populated set (includeEmptyVal false) or the
\* bounded set (includeEmptyVal true).
C15_RegionsCoverPopulated ==
  RegionsRan =>
    /\ \A p \in Populated(heap, board.storage) : Cardinality({i \in 1..Len(Regions) : p \in Regions[i]}) = 1
    /\ RegionUnion = IF IncludeEmpty THEN InBounds ELSE Populated(heap, board.storage)

\* C15 (amended): no point is in two regions, and the regions together are
\* the points within the bounds whose value differs from emptyVal
\* (includeEmptyVal false) or all points within the bounds (includeEmptyVal
\* true); a populated point outside the bounds, or one holding emptyVal when
\* includeEmptyVal is false, is in no region, and without bounds there is none.
C15_RegionsPartitionBounds ==
  RegionsRan =>
    /\ \A i, j \in 1..Len(Regions) : i # j => Regions[i] \cap Regions[j] = {}
    /\ RegionUnion = IF IncludeEmpty THEN InBounds
                     ELSE {p \in InBounds : ValueAt(p) # board.emptyVal}
    /\ board.bounds = <<>> => Regions = <<>>

\* two regions were found and a populated point is in none of them
C15_Witness ==
  /\ RegionsRan
  /\ ~IncludeEmpty
  /\ Len(Regions) >= 2
  /\ Populated(heap, board.storage) \ RegionUnion # {}

Adjacent(p, q) ==
  \/ p[2] = q[2] /\ (p[1] - q[1] = 1 \/ q[1] - p[1] = 1)
  \/ p[1] = q[1] /\ (p[2] - q[2] = 1 \/ q[2] - p[2] = 1)

\* the points of R joined to S by steps between adjacent points of R
RECURSIVE Grow(_, _)
Grow(S, R) ==
  IF {q \in R : \E p \in S : Adjacent(p, q)} \subseteq S THEN S
  ELSE Grow(S \cup {q \in R : \E p \in S : Adjacent(p, q)}, R)

\* C16: every region is a maximal 4-connected same-value set: its points hold
\* one value, any two of them are joined by steps between cardinally adjacent
\* points of the region, and no point of it is cardinally adjacent to a point
\* within the bounds, outside the region, of equal value.
C16_RegionsMaximalConnected ==
  RegionsRan =>
    \A i \in 1..Len(Regions) :
      /\ \A p, q \in Regions[i] : ValueAt(p) = ValueAt(q)
      /\ \A p \in Regions[i] : Grow({p}, Regions[i]) = Regions[i]
      /\ \A p \in Regions[i] : \A q \in InBounds \ Regions[i] : Adjacent(p, q) => ValueAt(q) # ValueAt(p)

\* a region of three points next to a region of another value
C16_Witness ==
  /\ RegionsRan
  /\ \E i, j \in 1..Len(Regions) :
       /\ Cardinality(Regions[i]) = 3
       /\ \E p \in Regions[i], q \in Regions[j] : Adjacent(p, q) /\ ValueAt(p) # ValueAt(q)

\* ------------------------------------ Board: ExpandBounds, SetAndExpandBounds
\* Board.ExpandBounds: the board with its bounds grown to hold p
BoardExpandBounds(b, p) ==
  IF b.bounds = <<>> THEN [b EXCEPT !.bounds = <<Rect(<<p[1], p[2]>>, <<p[1], p[2]>>)>>]
  ELSE LET r == orderBounds(b).bounds[1]
       IN [b EXCEPT !.bounds =
             <<Rect(<<IF r.P1[1] > p[1] THEN p[1] ELSE r.P1[1], IF r.P1[2] > p[2] THEN p[2] ELSE r.P1[2]>>,
                    <<IF r.P2[1] < p[1] THEN p[1] ELSE r.P2[1], IF r.P2[2] < p[2] THEN p[2] ELSE r.P2[2]>>)>>]

\* WithBounds: no bounds, or a rectangle with its corners in any order
InitialBounds == {<<>>} \cup {<<Rect(p1, p2)>> : p1 \in Point, p2 \in Point}

InitBounds ==
  /\ heap \in Storages
  /\ roots = {Len(heap)}
  /\ \E bnd \in InitialBounds : board = [NewBoard(Len(heap), Dot, "rune", "eq") EXCEPT !.bounds = bnd]
  /\ last = Load("New", <<>>, FALSE, FALSE, FALSE, <<>>)
  /\ copied = <<>>
  /\ steps = 0
  /\ written = {}
  /\ search = NoSearch
  /\ geo = NoGeo
  /\ dijkstra = NoDijkstra

ExpandBounds(p) ==
  /\ steps < MaxSteps
  /\ board' = BoardExpandBounds(board, p)
  /\ last' = [last EXCEPT !.op = "ExpandBounds", !.result = <<p>>, !.panic = FALSE]
  /\ steps' = steps + 1
  /\ UNCHANGED <<heap, roots, copied, written, search, geo, dijkstra>>

SetAndExpandBounds(p, v) ==
  /\ steps < MaxSteps
  /\ heap' = StorageSet(heap, board.storage, p, v).heap
  /\ board' = IF StorageSet(heap, board.storage, p, v).panic THEN board ELSE BoardExpandBounds(board, p)
  /\ last' = [last EXCEPT !.op = "SetAndExpandBounds", !.result = <<p>>,
                          !.panic = StorageSet(heap, board.storage, p, v).panic]
  /\ steps' = steps + 1
  /\ UNCHANGED <<roots, copied, written, search, geo, dijkstra>>

NextBounds ==
  \/ \E p \in Probe : ExpandBounds(p)
  \/ \E p \in Point, v \in Val : SetAndExpandBounds(p, v)

SpecBounds == InitBounds /\ [][NextBounds]_vars

\* the points of the grid and around it that lie within the board's bounds
BoundsPoints(b) == {q \in Probe : b.bounds # <<>> /\ Within(q, b.bounds[1])}

Least(S) == CHOOSE x \in S : \A y \in S : x <= y

Greatest(S) == CHOOSE x \in S : \A y \in S : x >= y

\* the points of the smallest rectangle that holds every point of S
Hull(S) ==
  {q \in Probe : /\ Least({a[1] : a \in S}) <= q[1] /\ q[1] <= Greatest({a[1] : a \in S})
                 /\ Least({a[2] : a \in S}) <= q[2] /\ q[2] <= Greatest({a[2] : a \in S})}

\* C18: after ExpandBounds(p), alone or as part of SetAndExpandBounds,
\* Contains(p) is true, every point within the bounds before the call is
\* within them after it, and the bounds are the smallest rectangle with both
\* properties: the single point p when there were no bounds; whatever the
\* order of the corners before the call.
C18_BoundsOnlyGrow ==
  [][(steps' # steps /\ last'.op \in {"ExpandBounds", "SetAndExpandBounds"} /\ ~last'.panic) =>
       /\ board'.bounds # <<>>
       /\ BoardContains(board', last'.result[1])
       /\ BoundsPoints(board) \subseteq BoundsPoints(board')
       /\ BoundsPoints(board') = Hull(BoundsPoints(board) \cup {last'.result[1]})
       /\ board.bounds = <<>> => board'.bounds = <<Rect(last'.result[1], last'.result[1])>>]_vars

\* the first call grew bounds given inside the grid to hold <<-1, -1>>
C18_Witness ==
  /\ last.op = "ExpandBounds"
  /\ steps = 1
  /\ last.result = <<<<0 - 1, 0 - 1>>>>
  /\ board.bounds = <<Rect(<<0 - 1, 0 - 1>>, <<1, 1>>)>>

\* -------------------------------------------------------------- Rectangle
\* Rectangle.OrderCoords has a value receiver: it swaps the corners of its
\* own copy, and the rectangle of the caller is what it was.
RectangleOrderCoords(r) == r

RectangleEmpty(r) == r.P1[1] = r.P2[1] /\ r.P1[2] = r.P2[2]

RectangleEqual(r, v) ==
  LET a == RectangleOrderCoords(r)
      b == RectangleOrderCoords(v)
  IN a.P1[1] = b.P1[1] /\ a.P1[2] = b.P1[2] /\ a.P2[1] = b.P2[1] /\ a.P2[2] = b.P2[2]

RectangleIntersection(r, v) ==
  LET a == RectangleOrderCoords(r)
      b == RectangleOrderCoords(v)
      c == Rect(<<IF a.P1[1] < b.P1[1] THEN b.P1[1] ELSE a.P1[1], IF a.P1[2] < b.P1[2] THEN b.P1[2] ELSE a.P1[2]>>,
                <<IF a.P2[1] > b.P2[1] THEN b.P2[1] ELSE a.P2[1], IF a.P2[2] > b.P2[2] THEN b.P2[2] ELSE a.P2[2]>>)
  IN IF c.P1[1] > c.P2[1] \/ c.P1[2] > c.P2[2] THEN ZeroRect ELSE c

RectangleOverlaps(r, v) ==
  LET a == RectangleOrderCoords(r)
      b == RectangleOrderCoords(v)
  IN /\ ~RectangleEmpty(a) /\ ~RectangleEmpty(b)
     /\ a.P1[1] < b.P2[1] /\ b.P1[1] < a.P2[1]
     /\ a.P1[2] < b.P2[2] /\ b.P1[2] < a.P2[2]

RectangleUnion(r, v) ==
  IF RectangleEmpty(r) THEN v
  ELSE IF RectangleEmpty(v) THEN r
  ELSE LET a == RectangleOrderCoords(r)
           b == RectangleOrderCoords(v)
       IN Rect(<<IF a.P1[1] > b.P1[1] THEN b.P1[1] ELSE a.P1[1], IF a.P1[2] > b.P1[2] THEN b.P1[2] ELSE a.P1[2]>>,
               <<IF a.P2[1] < b.P2[1] THEN b.P2[1] ELSE a.P2[1], IF a.P2[2] < b.P2[2] THEN b.P2[2] ELSE a.P2[2]>>)

RectangleContains(r, v) ==
  LET a == RectangleOrderCoords(r)
      b == RectangleOrderCoords(v)
  IN IF RectangleEmpty(b) THEN TRUE
     ELSE /\ a.P1[1] <= b.P1[1] /\ b.P2[1] <= a.P2[1]
          /\ a.P1[2] <= b.P1[2] /\ b.P2[2] <= a.P2[2]

RectangleWidth(r) == (IF r.P1[1] > r.P2[1] THEN r.P1[1] - r.P2[1] ELSE r.P2[1] - r.P1[1]) + 1

RectangleHeight(r) == (IF r.P1[2] > r.P2[2] THEN r.P1[2] - r.P2[2] ELSE r.P2[2] - r.P1[2]) + 1

RectangleArea(r) == RectangleWidth(r) * RectangleHeight(r)

\* the coordinates, points and rectangles the operations are applied to
Coords == 0..(MaxX + 1)

GeoPoints == Coords \X Coords

GeoRects == {Rect(p1, p2) : p1 \in GeoPoints, p2 \in GeoPoints}

\* the result of operation op on the rectangles r, v and the point p
GeoResult(op, r, v, p) ==
  CASE op = "Within" -> Within(p, r)
    [] op = "Width" -> RectangleWidth(r)
    [] op = "Height" -> RectangleHeight(r)
    [] op = "Area" -> RectangleArea(r)
    [] op = "Equal" -> RectangleEqual(r, v)
    [] op = "Intersection" -> RectangleIntersection(r, v)
    [] op = "Union" -> RectangleUnion(r, v)
    [] op = "Overlaps" -> RectangleOverlaps(r, v)
    [] op = "Contains" -> RectangleContains(r, v)

\* the operands drawn, no operation applied yet
Operands(r, v) == [op |-> "none", r |-> r, v |-> v]

Applied(op, r, v, p) == [op |-> op, r |-> r, v |-> v, p |-> p, result |-> <<GeoResult(op, r, v, p)>>]

InitGeo ==
  /\ heap = <<NewMap2D>>
  /\ roots = {1}
  /\ board = NoBoard
  /\ last = Op("New", 0, NoPoint, ZeroVal, 0, FALSE)
  /\ copied = <<>>
  /\ steps = 0
  /\ written = {}
  /\ search = NoSearch
  /\ dijkstra = NoDijkstra
  /\ \E r \in GeoRects, v \in GeoRects : geo = Operands(r, v)

\* one operation is applied to the operands drawn
GeoIdle == geo.op = "none" /\ UNCHANGED <<heap, roots, last, copied, steps, written, board, search, dijkstra>>

PointWithin(p) == GeoIdle /\ geo' = Applied("Within", geo.r, geo.v, p)

Width == GeoIdle /\ geo' = Applied("Width", geo.r, geo.v, NoPoint)

Height == GeoIdle /\ geo' = Applied("Height", geo.r, geo.v, NoPoint)

Area == GeoIdle /\ geo' = Applied("Area", geo.r, geo.v, NoPoint)

Equal == GeoIdle /\ geo' = Applied("Equal", geo.r, geo.v, NoPoint)

Intersection == GeoIdle /\ geo' = Applied("Intersection", geo.r, geo.v, NoPoint)

Union == GeoIdle /\ geo' = Applied("Union", geo.r, geo.v, NoPoint)

Overlaps == GeoIdle /\ geo' = Applied("Overlaps", geo.r, geo.v, NoPoint)

Contains == GeoIdle /\ geo' = Applied("Contains", geo.r, geo.v, NoPoint)

NextGeo ==
  \/ \E p \in GeoPoints : PointWithin(p)
  \/ Width
  \/ Height
  \/ Area
  \/ Equal
  \/ Intersection
  \/ Union
  \/ Overlaps
  \/ Contains

SpecGeo == InitGeo /\ [][NextGeo]_vars

\* r with its corners exchanged on no axis, on one, or on both
Swaps(r) ==
  {r, Rect(<<r.P2[1], r.P1[2]>>, <<r.P1[1], r.P2[2]>>), Rect(<<r.P1[1], r.P2[2]>>, <<r.P2[1], r.P1[2]>>),
   Rect(r.P2, r.P1)}

\* two results are the same; two rectangles are when they hold the same points
SameResult(op, x, y) == IF op \in {"Intersection", "Union"} THEN OrderRect(x) = OrderRect(y) ELSE x = y

\* C19 (as claimed): the result of Within, Width, Height, Area, Equal,
\* Intersection, Union, Overlaps and Contains is the same when either
\* rectangle is given with its corners exchanged on one or both axes.
C19_CornerOrderIrrelevant ==
  geo.op # "none" =>
    \A r2 \in Swaps(geo.r), v2 \in Swaps(geo.v) :
      SameResult(geo.op, GeoResult(geo.op, r2, v2, geo.p), geo.result[1])

Larger(a, b) == IF a > b THEN a ELSE b

Smaller(a, b) == IF a < b THEN a ELSE b

\* C20 (as claimed): Intersection(r1, r2) is, after both are put in order, the
\* rectangle from the component-wise larger of the low corners to the
\* component-wise smaller of the high corners, or the zero rectangle when that
\* low exceeds that high on an axis; and when the result is not Empty, a point
\* is Within it exactly when it is Within r1 and Within r2.
C20_IntersectionMeet ==
  geo.op = "Intersection" =>
    LET a == OrderRect(geo.r)
        b == OrderRect(geo.v)
        lo == <<Larger(a.P1[1], b.P1[1]), Larger(a.P1[2], b.P1[2])>>
        hi == <<Smaller(a.P2[1], b.P2[1]), Smaller(a.P2[2], b.P2[2])>>
    IN /\ geo.result[1] = IF lo[1] > hi[1] \/ lo[2] > hi[2] THEN ZeroRect ELSE Rect(lo, hi)
       /\ ~RectangleEmpty(geo.result[1]) =>
            \A q \in GeoPoints : Within(q, geo.result[1]) <=> (Within(q, geo.r) /\ Within(q, geo.v))

\* C21 (as claimed): for rectangles r and v with corners in any order,
\* r.Contains(v) is true whenever v is Empty, and when r is Empty
\* r.Contains(v) is true only if v is Empty too.
C21_ContainsEmpty ==
  geo.op = "Contains" =>
    /\ RectangleEmpty(geo.v) => geo.result[1]
    /\ (RectangleEmpty(geo.r) /\ geo.result[1]) => RectangleEmpty(geo.v)

\* ------------------------------------------------ claims: backends, again
\* C22 (as claimed): on a Dense backend just allocated with any width >= 0 and
\* height >= 0, Get at every coordinate outside the allocated extent reports
\* found = false and GetOrDefault returns the default given, without a fault.
C22_DenseOutOfRange ==
  (last.op = "Allocate" /\ heap[last.id].kind = "FlatBoard") =>
    \A p \in Probe :
      ~FlatIndexOK(heap[last.id], p) =>
        /\ StorageGet(heap, last.id, p) = <<ZeroVal, FALSE, FALSE>>
        /\ \A d \in Val : StorageGetOrDefault(heap, last.id, p, d) = <<d, FALSE>>

\* ---------------------------------------------------------- RunePlusBoard
\* RunePlusData is <<Value, Extra>>; the empty value NewRunePlusBoard installs
\* is '.' with the zero Extra
Extras == 0..1

PlusVal == Val \X Extras

PlusEmpty == <<Dot, 0>>

\* what the backend under an overlay holds when the board is built
PlusBases == UNION {[S -> {<<1, 0>>, <<MaxVal, 1>>}] : S \in SUBSET {<<0, 0>>, <<MaxX, 0>>}}

\* the backends of a RunePlusBoard: the sparse one, or an overlay over it
PlusStorages ==
  {<<NewMap2D>>} \cup {<<[NewMap2D EXCEPT !.data = m], NewCopyOnWriteStorage(1, PlusEmpty)>> : m \in PlusBases}

\* NewRunePlusBoard, with the compFunc it installs ("value") or with one given
\* by WithCompareFunc that compares the whole value ("eq"); with or without
\* WithBounds
InitPlus ==
  /\ heap \in PlusStorages
  /\ roots = {Len(heap)}
  /\ \E comp \in {"value", "eq"}, bnd \in {<<>>, <<Rect(<<0, 0>>, <<MaxX, MaxY>>)>>} :
       board = [NewBoard(Len(heap), PlusEmpty, "plus", comp) EXCEPT !.bounds = bnd]
  /\ last = Load("New", <<>>, FALSE, FALSE, FALSE, <<>>)
  /\ copied = <<>>
  /\ steps = 0
  /\ written = {}
  /\ search = NoSearch
  /\ geo = NoGeo
  /\ dijkstra = NoDijkstra

NextPlus ==
  \/ \E p \in Point, v \in PlusVal : BoardSet(p, v)
  \/ \E t \in PlusTFuncs : Transform(t)

SpecPlus == InitPlus /\ [][NextPlus]_vars

\* the values differ as the board's value-equality function has it
Differs(b, v1, v2) == IF b.compFunc = "value" THEN v1[1] # v2[1] ELSE v1 # v2

\* the entries of the map m, those at the coordinates in S replaced by f
Overwritten(m, S, f) == [p \in DOMAIN m \cup S |-> IF p \in S THEN f[p] ELSE m[p]]

\* C23: a Transform pass writes a populated cell exactly when the transform
\* function's result for it differs from its old value under compFunc; a
\* written cell then holds tFunc(p, old(p)), every other cell of the backend
\* (and of the backend under an overlay) and the bounds are as they were. With
\* the compFunc of a RunePlusBoard a result that differs in the Extra only is
\* not written.
C23_TransformWrites ==
  [][(steps' # steps /\ last'.op = "Transform" /\ ~last'.panic) =>
       LET id == board.storage
           new == [p \in Populated(heap, id) |->
                    TFunc(last'.result[1], board, heap, p, StorageGet(heap, id, p)[1])]
           changed == {p \in Populated(heap, id) : Differs(board, new[p], StorageGet(heap, id, p)[1])}
       IN /\ board' = board
          /\ Len(heap') = Len(heap)
          /\ \A i \in 1..Len(heap) : i # id => heap'[i] = heap[i]
          /\ heap'[id].data = Overwritten(heap[id].data, IF IsCow(heap, id) THEN {} ELSE changed, new)
          /\ heap'[id].overlay = Overwritten(heap[id].overlay, IF IsCow(heap, id) THEN changed ELSE {}, new)]_vars

\* the first operation on an overlay board with the compFunc of a
\* RunePlusBoard was a "split" pass over two cells of the underlying: the cell
\* in column 0 was written to the overlay, the other, whose Extra alone the
\* function changed, was not
C23_Witness ==
  /\ last.op = "Transform" /\ last.result = <<"split">> /\ ~last.panic
  /\ steps = 1
  /\ board.compFunc = "value"
  /\ IsCow(heap, board.storage)
  /\ DOMAIN heap[1].data = {<<0, 0>>, <<MaxX, 0>>}
  /\ DOMAIN heap[board.storage].overlay = {<<0, 0>>}

\* the overlay id holds its empty value at p as an entry of its own, and
\* reports it: Get finds it, GetOrDefault returns it whatever the default
Tombstone(h, id, p) ==
  /\ p \in DOMAIN h[id].overlay
  /\ h[id].overlay[p] = h[id].emptyVal
  /\ StorageGet(h, id, p) = <<h[id].emptyVal, TRUE, FALSE>>
  /\ \A d \in Val \cup {ZeroVal} : StorageGetOrDefault(h, id, p, d) = <<h[id].emptyVal, FALSE>>

\* C24: overlay.Delete(p) leaves a tombstone at p, whatever the underlying
\* holds there, and every operation other than overlay.Set(p, v) on that
\* overlay keeps it: until the next overlay.Set(p, v), overlay.Get(p) is
\* (emptyVal, true) and overlay.GetOrDefault(p, d) is emptyVal for every d.
\* (A step that leaves the heap as it was keeps every tombstone.)
C24_TombstoneUntilSet ==
  [][/\ (steps' # steps /\ last'.op = "Delete" /\ IsCow(heap, last'.id)) => Tombstone(heap', last'.id, last'.p)
     /\ heap' # heap =>
          \A id \in 1..Len(heap) : \A p \in Point :
            (/\ IsCow(heap, id)
             /\ Tombstone(heap, id, p)
             /\ ~(steps' # steps /\ last'.op = "Set" /\ last'.id = id /\ last'.p = p))
              => Tombstone(heap', id, p)]_vars

\* a Delete on an overlay whose underlying holds another value than emptyVal
\* at the point, after which a write to the underlying at that point followed
C24_Witness ==
  /\ last.op = "Set" /\ ~IsCow(heap, last.id)
  /\ \E id \in 1..Len(heap) :
       /\ IsCow(heap, id) /\ heap[id].underlying = last.id
       /\ Tombstone(heap, id, last.p)
       /\ StorageGet(heap, last.id, last.p)[2]
       /\ StorageGet(heap, last.id, last.p)[1] # heap[id].emptyVal

\* every point Within r or Within v is Within s
Covers(s, r, v) == \A q \in GeoPoints : (Within(q, r) \/ Within(q, v)) => Within(q, s)

\* C25 (as claimed): every point Within r or Within v is Within r.Union(v),
\* and no rectangle with a smaller area has that property.
C25_UnionSmallestCover ==
  geo.op = "Union" =>
    /\ Covers(geo.result[1], geo.r, geo.v)
    /\ \A s \in GeoRects : Covers(s, geo.r, geo.v) => RectangleArea(s) >= RectangleArea(geo.result[1])

\* C27 (as claimed): r.Empty() holds exactly when r.Area() is 0.
C27_EmptyIffZeroArea ==
  geo.op = "Area" => (RectangleEmpty(geo.r) <=> geo.result[1] = 0)

\* the rectangle's corners are in order: P1 is the low corner on both axes
Ordered(r) == r.P1[1] <= r.P2[1] /\ r.P1[2] <= r.P2[2]

\* C28 (as claimed): for r and v with ordered corners, r.Overlaps(v) is true
\* exactly when some point is Within both r and v, also when they share a
\* boundary row or column only.
C28_OverlapsSharesPoint ==
  (geo.op = "Overlaps" /\ Ordered(geo.r) /\ Ordered(geo.v)) =>
    (geo.result[1] <=> \E q \in GeoPoints : Within(q, geo.r) /\ Within(q, geo.v))

\* ------------------------------------------------------------- Board.Copy
\* Board.Copy: the new board has a copy of the storage, the empty value and a
\* copy of the bounds; its convFunc and compFunc are not assigned, and
\* RuneBoard.Copy and StdBoard.Copy assign nothing more
BoardCopy(b, h) ==
  LET c == StorageCopyToBoardStorage(h, b.storage)
  IN [board |-> [NewBoard(c.id, b.emptyVal, "nil", "nil") EXCEPT !.bounds = b.bounds], heap |-> c.heap]

\* one copy of the board is taken in a run; it is kept in copied
Copy ==
  /\ steps < MaxSteps
  /\ copied = <<>>
  /\ heap' = BoardCopy(board, heap).heap
  /\ copied' = <<BoardCopy(board, heap).board>>
  /\ last' = [last EXCEPT !.op = "Copy", !.err = FALSE, !.fresh = FALSE, !.result = <<>>, !.panic = FALSE]
  /\ steps' = steps + 1
  /\ UNCHANGED <<roots, written, board, search, geo, dijkstra>>

\* Set on the copy
CopySet(p, v) ==
  /\ steps < MaxSteps
  /\ copied # <<>>
  /\ heap' = StorageSet(heap, copied[1].storage, p, v).heap
  /\ last' = [last EXCEPT !.op = "CopySet", !.err = FALSE, !.fresh = FALSE, !.result = <<>>,
                          !.panic = StorageSet(heap, copied[1].storage, p, v).panic]
  /\ steps' = steps + 1
  /\ UNCHANGED <<roots, copied, written, board, search, geo, dijkstra>>

NextCopy ==
  \/ \E s \in RowLists : FromStrings(s)
  \/ \E p \in Point, v \in Val : BoardSet(p, v)
  \/ Copy
  \/ \E p \in Point, v \in Val : CopySet(p, v)

SpecCopy == InitBoard /\ [][NextCopy]_vars

\* the outcomes of FromStrings, Transform and FindRegions on board b
Loads(b, h, s) == ~BoardFromStrings(b, h, s).err /\ ~BoardFromStrings(b, h, s).panic

Transforms(b, h, t) == \A r \in BoardTransform(b, h, t) : ~r.panic

\* C29 (as claimed): right after nb = b.Copy(), nb has the cell values, the
\* bounds and the empty value of b and the same compFunc and convFunc, and
\* FromStrings, Transform and FindRegions succeed on nb whenever they succeed
\* on b, FindRegions with the same regions.
C29_CopyBehavesAlike ==
  (last.op = "Copy" /\ copied # <<>>) =>
    /\ copied[1].emptyVal = board.emptyVal
    /\ copied[1].bounds = board.bounds
    /\ \A p \in Probe : StorageGet(heap, copied[1].storage, p) = StorageGet(heap, board.storage, p)
    /\ copied[1].convFunc = board.convFunc
    /\ copied[1].compFunc = board.compFunc
    /\ \A s \in RowLists : Loads(board, heap, s) => Loads(copied[1], heap, s)
    /\ \A t \in TFuncs : Transforms(board, heap, t) => Transforms(copied[1], heap, t)
    /\ \A inc \in BOOLEAN :
         ~BoardFindRegions(board, heap, inc).panic =>
           BoardFindRegions(copied[1], heap, inc) = BoardFindRegions(board, heap, inc)

\* ------------------------------------------- claims: the Board, again
\* a FromStrings call on a board over an overlay has just returned
OverlayLoad == steps' # steps /\ last'.op = "FromStrings" /\ IsCow(heap, board.storage)

\* C30 (as claimed): FromStrings on a Board over an overlay always reaches the
\* backend's Allocate, which the overlay rejects: the call aborts there, no
\* cell is written to the overlay or the underlying, the bounds are not set.
C30_AlwaysReachesAllocate ==
  [][OverlayLoad => (last'.panic /\ ~last'.err /\ heap' = heap /\ board' = board)]_vars

\* C30: FromStrings on a Board over an overlay never succeeds, writes no cell
\* to the overlay or the underlying and leaves the bounds as they were: with
\* no convFunc it returns its error before it calls Allocate, otherwise it
\* aborts (on the first row of an empty input, or in the overlay's Allocate).
C30_OverlayIngestionFails ==
  [][OverlayLoad =>
       /\ last'.err # last'.panic
       /\ last'.err <=> board.convFunc = "nil"
       /\ heap' = heap
       /\ board' = board]_vars

\* FromStrings with a convFunc and rows to read has aborted on a board whose
\* overlay holds cells
C30_Witness ==
  /\ last.op = "FromStrings" /\ last.panic /\ ~last.err
  /\ IsCow(heap, board.storage)
  /\ board.convFunc # "nil"
  /\ Len(last.rows) > 0
  /\ DOMAIN heap[board.storage].overlay # {}

\* --------------------------------------------------------- Graph.Dijkstra
\* A graph is a function from its nodes to their edge lists, an edge is
\* [Dest, Cost]. Costs and distances are unsigned integers of UintBits bits
\* (64 in the program): sums wrap around, MaxUint64 is the largest value.
NumNodes == 3

MaxCost == 2

UintBits == 4

MaxUint64 == 2^UintBits - 1

Nodes == 1..NumNodes

Costs == 0..MaxCost

Edge(dest, cost) == [Dest |-> dest, Cost |-> cost]

\* the edge lists of node u: no two edges to one node, none to u itself
EdgeLists(u) ==
  {L \in UNION {[1..n -> {Edge(d, c) : d \in Nodes \ {u}, c \in Costs}] : n \in 0..(NumNodes - 1)} :
     \A i, j \in 1..Len(L) : i # j => L[i].Dest # L[j].Dest}

\* the graphs AddEdge builds over the nodes
Graphs == {g \in [Nodes -> UNION {EdgeLists(u) : u \in Nodes}] : \A u \in Nodes : g[u] \in EdgeLists(u)}

\* itemHeap is a sequence of [value, priority]; an item's index field is its
\* position, counted from 0 as in the program
itemHeapLess(ih, i, j) == ih[i + 1].priority < ih[j + 1].priority

itemHeapSwap(ih, i, j) == [ih EXCEPT ![i + 1] = ih[j + 1], ![j + 1] = ih[i + 1]]

\* container/heap up
RECURSIVE heapUp(_, _)
heapUp(ih, j) ==
  LET i == IF j = 0 THEN 0 ELSE (j - 1) \div 2
  IN IF i = j \/ ~itemHeapLess(ih, j, i) THEN ih ELSE heapUp(itemHeapSwap(ih, i, j), i)

\* container/heap down: the heap and the index the item came to rest at
RECURSIVE heapDown(_, _, _)
heapDown(ih, i, n) ==
  LET j1 == 2 * i + 1
      j == IF j1 + 1 < n /\ itemHeapLess(ih, j1 + 1, j1) THEN j1 + 1 ELSE j1
  IN IF j1 >= n THEN [ih |-> ih, i |-> i]
     ELSE IF ~itemHeapLess(ih, j, i) THEN [ih |-> ih, i |-> i]
     ELSE heapDown(itemHeapSwap(ih, i, j), j, n)

\* PriorityQueue.Insert: heap.Push of a new item, nothing for a value in the queue
PriorityQueueInsert(ih, v, priority) ==
  IF \E k \in 1..Len(ih) : ih[k].value = v THEN ih
  ELSE heapUp(Append(ih, [value |-> v, priority |-> priority]), Len(ih))

\* PriorityQueue.Pop on a queue that is not empty: heap.Pop
PriorityQueuePop(ih) ==
  LET n == Len(ih) - 1
      d == heapDown(itemHeapSwap(ih, 0, n), 0, n).ih
  IN [value |-> d[n + 1].value, ih |-> SubSeq(d, 1, n)]

\* PriorityQueue.UpdatePriority: heap.Fix at the item's index, nothing for a
\* value not in the queue
PriorityQueueUpdatePriority(ih, x, newPriority) ==
  IF ~\E k \in 1..Len(ih) : ih[k].value = x THEN ih
  ELSE LET i == (CHOOSE k \in 1..Len(ih) : ih[k].value = x) - 1
           f == [ih EXCEPT ![i + 1].priority = newPriority]
       IN IF heapDown(f, i, Len(f)).i > i THEN heapDown(f, i, Len(f)).ih ELSE heapUp(f, i)

\* Dijkstra up to its main loop: order is the order the range over g.Nodes
\* takes
RECURSIVE DijkstraInsertAll(_, _, _)
DijkstraInsertAll(ih, order, source) ==
  IF order = <<>> THEN ih
  ELSE IF order[1] = source THEN DijkstraInsertAll(ih, Tail(order), source)
  ELSE DijkstraInsertAll(PriorityQueueInsert(ih, order[1], MaxUint64), Tail(order), source)

DijkstraBegin(g, source, order) ==
  [pc |-> "loop", g |-> g, source |-> source,
   dist |-> [v \in Nodes |-> IF v = source THEN 0 ELSE MaxUint64],
   prev |-> [v \in Nodes |-> <<>>],
   Q |-> DijkstraInsertAll(PriorityQueueInsert(<<>>, source, 0), order, source)]

\* the loop over the edges of the node u just popped
RECURSIVE DijkstraRelax(_, _, _)
DijkstraRelax(st, u, edges) ==
  IF edges = <<>> THEN st
  ELSE LET v == edges[1].Dest
           alt == (st.dist[u] + edges[1].Cost) % (2^UintBits)
       IN IF alt < st.dist[v]
            THEN DijkstraRelax([st EXCEPT !.prev[v] = <<u>>, !.dist[v] = alt,
                                          !.Q = PriorityQueueUpdatePriority(st.Q, v, alt)], u, Tail(edges))
          ELSE IF alt = st.dist[v]
            THEN DijkstraRelax([st EXCEPT !.prev[v] = Append(st.prev[v], u)], u, Tail(edges))
          ELSE DijkstraRelax(st, u, Tail(edges))

\* a graph and a source are given
InitDijkstra ==
  /\ heap = <<NewMap2D>>
  /\ roots = {1}
  /\ board = NoBoard
  /\ last = Op("New", 0, NoPoint, ZeroVal, 0, FALSE)
  /\ copied = <<>>
  /\ steps = 0
  /\ written = {}
  /\ search = NoSearch
  /\ geo = NoGeo
  /\ \E g \in Graphs, source \in Nodes : dijkstra = [pc |-> "call", g |-> g, source |-> source]

DijkstraCall(order) ==
  /\ dijkstra.pc = "call"
  /\ dijkstra' = DijkstraBegin(dijkstra.g, dijkstra.source, order)
  /\ UNCHANGED <<heap, roots, last, copied, steps, written, board, search, geo>>

\* one turn of the main loop: Pop, then the edges of the node popped
DijkstraLoop ==
  /\ dijkstra.pc = "loop"
  /\ Len(dijkstra.Q) > 0
  /\ dijkstra' = DijkstraRelax([dijkstra EXCEPT !.Q = PriorityQueuePop(dijkstra.Q).ih],
                               PriorityQueuePop(dijkstra.Q).value,
                               dijkstra.g[PriorityQueuePop(dijkstra.Q).value])
  /\ UNCHANGED <<heap, roots, last, copied, steps, written, board, search, geo>>

DijkstraReturn ==
  /\ dijkstra.pc = "loop"
  /\ Len(dijkstra.Q) = 0
  /\ dijkstra' = [dijkstra EXCEPT !.pc = "done"]
  /\ UNCHANGED <<heap, roots, last, copied, steps, written, board, search, geo>>

NextDijkstra ==
  \/ \E order \in Perms(Nodes) : DijkstraCall(order)
  \/ DijkstraLoop
  \/ DijkstraReturn

SpecDijkstra == InitDijkstra /\ [][NextDijkstra]_vars

\* the paths of g from source: no node twice, an edge between neighbours
GraphPaths(g, source) ==
  {P \in UNION {[1..n -> Nodes] : n \in 1..NumNodes} :
     /\ P[1] = source
     /\ \A i, j \in 1..Len(P) : i # j => P[i] # P[j]
     /\ \A i \in 1..(Len(P) - 1) : \E k \in 1..Len(g[P[i]]) : g[P[i]][k].Dest = P[i + 1]}

\* the cost of the edge of g from u to v (there is at most one)
EdgeCost(g, u, v) == g[u][CHOOSE k \in 1..Len(g[u]) : g[u][k].Dest = v].Cost

RECURSIVE PathCost(_, _)
PathCost(g, P) == IF Len(P) <= 1 THEN 0 ELSE EdgeCost(g, P[1], P[2]) + PathCost(g, Tail(P))

\* the least total cost of a path from source to v, for v reachable
MinCost(g, source, v) ==
  Least({PathCost(g, P) : P \in {R \in GraphPaths(g, source) : R[Len(R)] = v}})

ReachableFrom(g, source) == {P[Len(P)] : P \in GraphPaths(g, source)}

\* C26 (as claimed): the dist Dijkstra returns is, for every node reachable
\* from the source, the least total cost of a path from the source to it, and
\* MaxUint64 for every node not reachable, also when edges leave nodes that
\* are not reachable.
C26_DijkstraDistances ==
  dijkstra.pc = "done" =>
    \A v \in Nodes :
      dijkstra.dist[v] = IF v \in ReachableFrom(dijkstra.g, dijkstra.source)
                           THEN MinCost(dijkstra.g, dijkstra.source, v)
                           ELSE MaxUint64

====
